---- MODULE Spec2Model ----
(***************************************************************************)
(* Model of the jitter package: the exponential-cap primitive expCap, the  *)
(* stateless strategies Full, Equal and Exponential, the stateful          *)
(* Decorrelated strategy, and the constructors' configuration validation.  *)
(*                                                                         *)
(* The package computes on int64.  The model keeps two's-complement        *)
(* wrap-around but on IntBits-bit signed integers, so that TLC can         *)
(* enumerate the whole range.                                              *)
(***************************************************************************)
EXTENDS Integers, Sequences, FiniteSets, TLC

\* ---------------------------------------------------------------- bounds
\* Width in bits of the modelled signed integer (stands for int64).
IntBits == 4
\* Largest attempt number passed to Next / expCap.
MaxAttempt == 5

Modulus == 2 ^ IntBits
MaxInt == 2 ^ (IntBits - 1) - 1
MinInt == -(2 ^ (IntBits - 1))
Int64 == MinInt..MaxInt

\* Attempt values handed to expCap and to the stateless strategies.
Attempts == (-2)..MaxAttempt
\* Attempt values handed to Decorrelated, which only tests attempt < 1.
DecorAttempts == (-1)..2

Min2(a, b) == IF a < b THEN a ELSE b
Max2(a, b) == IF a > b THEN a ELSE b

\* ------------------------------------------------- fixed-width arithmetic
\* Two's-complement wrap of a mathematical integer into the signed range.
Wrap(x) == ((x - MinInt) % Modulus) + MinInt

\* Go's integer division truncates toward zero.
Quo(a, b) == IF a >= 0 THEN a \div b ELSE -((-a) \div b)

\* max <<= 1  (variant: the shift left out)
Shl1Drop(x) == x
Shl1(x) == Wrap(x * 2)

\* d.sleep * 3
Mul3(x) == Wrap(x * 3)

\* a + b and a - b on the fixed width
Add(a, b) == Wrap(a + b)
Sub(a, b) == Wrap(a - b)

\* ------------------------------------------------------------- expCap
\* if attempt < 0 || base <= 0 || cap <= 0 { return 0 }
ExpCapInvalid(base, cap, attempt) == attempt < 0 \/ base <= 0 \/ cap <= 0

\* for ...; i < attempt && max < cap; ...
LoopCond(i, attempt, max, cap) == i < attempt /\ max < cap

\* if max > cap/2 { max = cap; break }  (variant: tested against cap itself)
WouldExceedLate(max, cap) == max > cap
WouldExceed(max, cap) == max > Quo(cap, 2)

\* if max > cap { return cap }; return max
FinalClamp(max, cap) == IF max > cap THEN cap ELSE max

RECURSIVE expCapLoop(_, _, _, _)
expCapLoop(max, cap, i, attempt) ==
    IF LoopCond(i, attempt, max, cap)
    THEN IF WouldExceed(max, cap)
         THEN cap
         ELSE expCapLoop(Shl1(max), cap, i + 1, attempt)
    ELSE max

expCap(base, cap, attempt) ==
    IF ExpCapInvalid(base, cap, attempt)
    THEN 0
    ELSE FinalClamp(expCapLoop(base, cap, 0, attempt), cap)

\* ------------------------------------------------------------ validation
IssueBase == "Base must be > 0"
IssueCap == "Cap must be > 0"
IssueRandom == "Random function must be provided"

IssueIf(cond, msg) == IF cond THEN <<msg>> ELSE <<>>

\* getExponentialConfigIssues: Base and Cap only
getExponentialConfigIssues(c) ==
    IssueIf(c.Base <= 0, IssueBase) \o IssueIf(c.Cap <= 0, IssueCap)

\* getJitterConfigIssues: Base, Cap and Random, every violated one appended
\* (variant: returning at the first violated one)
getJitterConfigIssuesFirstOnly(c) ==
    IF c.Base <= 0 THEN <<IssueBase>>
    ELSE IF c.Cap <= 0 THEN <<IssueCap>>
    ELSE IssueIf(c.Random = "nil", IssueRandom)
getJitterConfigIssues(c) ==
    IssueIf(c.Base <= 0, IssueBase) \o IssueIf(c.Cap <= 0, IssueCap)
        \o IssueIf(c.Random = "nil", IssueRandom)

\* ---------------------------------------------------------- random source
\* RandomFunc: for n > 0 a value of [0, n).  For n <= 0 the contract leaves the
\* result open: any value of the integer type.  "max" is the source f(n) = n - 1.
Draw(random, n) ==
    IF n <= 0 THEN Int64
    ELSE IF random = "max" THEN {n - 1}
    ELSE 0..(n - 1)

\* For n <= 0 the source may also panic (math/rand's Int63n does).
MayPanic(n) == IF n <= 0 THEN BOOLEAN ELSE {FALSE}

\* ------------------------------------------------------------- strategies
\* fullJitter.Next: if max < 0 { return 0 }
FullSkipsDraw(max) == max < 0

\* equalJitter.Next: half := backoff / 2; span := backoff - half
\* (variant: the span taken as the whole backoff)
EqualHalf(backoff) == Quo(backoff, 2)
EqualSpanWhole(backoff) == backoff
EqualSpan(backoff) == Sub(backoff, EqualHalf(backoff))

\* exponential.Next
ExponentialNext(b, c, attempt) == expCap(b, c, attempt)

\* decorrelatedJitter.Next, lines 37-44: the sleep value the bounds are
\* computed from (reset on attempt < 1, safeguard on sleep <= 0).
\* (variant: without the reset)
DecorPrevNoReset(b, s, attempt) == IF s <= 0 THEN b ELSE s
DecorPrev(b, s, attempt) ==
    LET s1 == IF attempt < 1 THEN b ELSE s
    IN  IF s1 <= 0 THEN b ELSE s1

\* lines 46-54: max := d.sleep * 3, raised to min, lowered to cap
DecorUpper(b, c, s) ==
    LET m1 == Mul3(s)
        m2 == IF m1 < b THEN b ELSE m1
    IN  IF m2 > c THEN c ELSE m2

\* lines 55-65: no room to jitter
DecorNoRoom(min, max) == max <= min \/ Sub(max, min) <= 0

\* lines 68-74: next := min + random(span), clamped into (0, cap]
DecorClamp(min, c, r) ==
    LET n1 == Add(min, r)
        n2 == IF n1 <= 0 THEN min ELSE n1
    IN  IF n2 > c THEN c ELSE n2

\* The whole call, given the value r the random source returns if consulted.
DecorStep(b, c, s, attempt, r) ==
    LET prev0 == DecorPrev(b, s, attempt)
        max == DecorUpper(b, c, prev0)
    IN  IF DecorNoRoom(b, max)
        THEN [sleep |-> b, ret |-> b, randArgs |-> <<>>, prev |-> prev0,
              upper |-> max]
        ELSE [sleep |-> DecorClamp(b, c, r), ret |-> DecorClamp(b, c, r),
              randArgs |-> <<Sub(max, b)>>, prev |-> prev0, upper |-> max]

\* The bound Decorrelated passes to the random source, 0 when it draws nothing.
DecorSpan(b, c, s, attempt) ==
    LET max == DecorUpper(b, c, DecorPrev(b, s, attempt))
    IN  IF DecorNoRoom(b, max) THEN 0 ELSE Sub(max, b)

\* ------------------------------------------------------------------ state
VARIABLES
    kind,       \* the Strategy the caller holds: "none" (nil) or its variant
    base,       \* its base field
    cap,        \* its cap field
    random,     \* its random field: "nil", "uniform" or "max"
    sleep,      \* decorrelatedJitter.sleep
    cfg,        \* the Config handed to the last constructor
    issues,     \* ConfigError.Issues of the last constructor, <<>> when err == nil
    op,         \* the last operation
    attempt,    \* argument of the last Next
    ret,        \* value the last Next returned
    randArgs,   \* bounds the last Next passed to the random source
    draw,       \* value the random source returned in the last Next
    panicked,   \* the random source panicked in the last Next
    sleepIn,    \* Decorrelated: d.sleep on entry to the last Next
    prev,       \* Decorrelated: d.sleep as read at line 47 of the last Next
    upper,      \* Decorrelated: max after line 54 of the last Next
    ecPc,       \* expCap call frame: position
    ecBase, ecCap, ecAttempt,   \* its arguments
    ecMax, ecI, \* its locals
    ecRet       \* its result

instVars == <<kind, base, cap, random, sleep>>
ctorVars == <<cfg, issues>>
callVars == <<attempt, ret, randArgs, draw, panicked, sleepIn, prev, upper>>
ecVars == <<ecPc, ecBase, ecCap, ecAttempt, ecMax, ecI, ecRet>>
vars == <<instVars, ctorVars, op, callVars, ecVars>>

NoCall ==
    /\ attempt = 0 /\ ret = 0 /\ randArgs = <<>> /\ draw = 0
    /\ panicked = FALSE /\ sleepIn = 0 /\ prev = 0 /\ upper = 0

NoCall1 ==
    /\ attempt' = 0 /\ ret' = 0 /\ randArgs' = <<>> /\ draw' = 0
    /\ panicked' = FALSE /\ sleepIn' = 0 /\ prev' = 0 /\ upper' = 0

EcIdle ==
    /\ ecPc = "idle" /\ ecBase = 0 /\ ecCap = 0 /\ ecAttempt = 0
    /\ ecMax = 0 /\ ecI = 0 /\ ecRet = 0

NoStrategy ==
    /\ kind = "none" /\ base = 0 /\ cap = 0 /\ random = "nil" /\ sleep = 0
    /\ cfg = [Base |-> 0, Cap |-> 0, Random |-> "nil"] /\ issues = <<>>

\* Nothing constructed yet.
Init == NoStrategy /\ op = "init" /\ NoCall /\ EcIdle

\* Configs a caller may hand to a constructor.
Configs == [Base : Int64, Cap : Int64, Random : {"nil", "uniform"}]

\* A constructor's outcome: (nil, &ConfigError{issues}) or (&variant{...}, nil).
\* A caller constructs one instance per retry sequence, so a constructor runs
\* on a caller that holds nothing yet.
Construct(name, variant, c, found, rnd, s0) ==
    /\ op' = name
    /\ cfg' = c
    /\ issues' = found
    /\ IF Len(found) > 0
       THEN kind' = "none" /\ base' = 0 /\ cap' = 0 /\ random' = "nil" /\ sleep' = 0
       ELSE kind' = variant /\ base' = c.Base /\ cap' = c.Cap
            /\ random' = rnd /\ sleep' = s0
    /\ NoCall1
    /\ UNCHANGED ecVars

NewFull ==
    /\ op = "init"
    /\ \E c \in Configs :
        Construct("NewFull", "full", c, getJitterConfigIssues(c), c.Random, 0)

NewEqual ==
    /\ op = "init"
    /\ \E c \in Configs :
        Construct("NewEqual", "equal", c, getJitterConfigIssues(c), c.Random, 0)

NewDecorrelated ==
    /\ op = "init"
    /\ \E c \in Configs :
        Construct("NewDecorrelated", "decorrelated", c, getJitterConfigIssues(c),
                  c.Random, c.Base)

\* The exponential struct keeps no random field.
NewExponential ==
    /\ op = "init"
    /\ \E c \in Configs :
        Construct("NewExponential", "exponential", c, getExponentialConfigIssues(c),
                  "nil", 0)

\* The retry sequence ends (or construction failed): the caller drops what it
\* holds and may construct again.
Discard ==
    /\ op # "init"
    /\ ecPc = "idle"
    /\ op' = "init"
    /\ kind' = "none" /\ base' = 0 /\ cap' = 0 /\ random' = "nil" /\ sleep' = 0
    /\ cfg' = [Base |-> 0, Cap |-> 0, Random |-> "nil"] /\ issues' = <<>>
    /\ NoCall1
    /\ UNCHANGED ecVars

\* A Next that consults the random source with bound n and returns f(r).
Returned(a, value, args, r, p) ==
    /\ op' = "Next"
    /\ attempt' = a
    /\ ret' = value
    /\ randArgs' = args
    /\ draw' = r
    /\ panicked' = p

FullNext ==
    /\ kind = "full"
    /\ \E a \in Attempts :
        LET max == expCap(base, cap, a)
        IN  IF FullSkipsDraw(max)
            THEN Returned(a, 0, <<>>, 0, FALSE)
            ELSE \E r \in Draw(random, max), p \in MayPanic(max) :
                    Returned(a, IF p THEN 0 ELSE r, <<max>>, IF p THEN 0 ELSE r, p)
    /\ sleepIn' = 0 /\ prev' = 0 /\ upper' = 0
    /\ UNCHANGED <<instVars, ctorVars, ecVars>>

EqualNext ==
    /\ kind = "equal"
    /\ \E a \in Attempts :
        LET backoff == expCap(base, cap, a)
            half == EqualHalf(backoff)
            span == EqualSpan(backoff)
        IN  IF backoff <= 0
            THEN Returned(a, 0, <<>>, 0, FALSE)
            ELSE IF span <= 0
            THEN Returned(a, half, <<>>, 0, FALSE)
            ELSE \E r \in Draw(random, span) :
                    Returned(a, Add(half, r), <<span>>, r, FALSE)
    /\ sleepIn' = 0 /\ prev' = 0 /\ upper' = 0
    /\ UNCHANGED <<instVars, ctorVars, ecVars>>

ExpNext ==
    /\ kind = "exponential"
    /\ \E a \in Attempts :
        Returned(a, ExponentialNext(base, cap, a), <<>>, 0, FALSE)
    /\ sleepIn' = 0 /\ prev' = 0 /\ upper' = 0
    /\ UNCHANGED <<instVars, ctorVars, ecVars>>

\* decorrelatedJitter.Next with attempt drawn from as
DecorCall(as) ==
    /\ kind = "decorrelated"
    /\ \E a \in as :
        LET n == DecorSpan(base, cap, sleep, a)
        IN  \E r \in (IF n = 0 THEN {0} ELSE Draw(random, n)) :
                LET out == DecorStep(base, cap, sleep, a, r)
                IN  /\ Returned(a, out.ret, out.randArgs, r, FALSE)
                    /\ sleep' = out.sleep
                    /\ sleepIn' = sleep
                    /\ prev' = out.prev
                    /\ upper' = out.upper
    /\ UNCHANGED <<kind, base, cap, random, ctorVars, ecVars>>

DecorNext ==
    /\ ecPc = "idle"
    /\ DecorCall(DecorAttempts)

Next ==
    \/ NewFull
    \/ NewEqual
    \/ NewDecorrelated
    \/ NewExponential
    \/ FullNext
    \/ EqualNext
    \/ ExpNext
    \/ DecorNext
    \/ Discard

Spec == Init /\ [][Next]_vars

\* ------------------------------------------------- expCap, step by step
\* A call of expCap on arbitrary arguments, one loop iteration per step.
InitExpCap ==
    /\ NoStrategy /\ op = "init" /\ NoCall
    /\ ecPc = "call"
    /\ ecBase \in Int64 /\ ecCap \in Int64 /\ ecAttempt \in Attempts
    /\ ecMax = 0 /\ ecI = 0 /\ ecRet = 0

\* lines 24-29: the argument check, then max := base
ExpCapEnter ==
    /\ ecPc = "call"
    /\ IF ExpCapInvalid(ecBase, ecCap, ecAttempt)
       THEN ecRet' = 0 /\ ecPc' = "done" /\ UNCHANGED <<ecMax, ecI>>
       ELSE ecMax' = ecBase /\ ecI' = 0 /\ ecPc' = "loop" /\ UNCHANGED ecRet
    /\ UNCHANGED <<instVars, ctorVars, op, callVars, ecBase, ecCap, ecAttempt>>

\* lines 30-37: one iteration, clamping (and leaving the loop) or doubling
ExpCapIterate ==
    /\ ecPc = "loop"
    /\ LoopCond(ecI, ecAttempt, ecMax, ecCap)
    /\ IF WouldExceed(ecMax, ecCap)
       THEN ecMax' = ecCap /\ ecPc' = "after" /\ UNCHANGED ecI
       ELSE ecMax' = Shl1(ecMax) /\ ecI' = ecI + 1 /\ UNCHANGED ecPc
    /\ UNCHANGED <<instVars, ctorVars, op, callVars, ecBase, ecCap, ecAttempt, ecRet>>

\* line 30: the loop condition fails
ExpCapLeave ==
    /\ ecPc = "loop"
    /\ ~LoopCond(ecI, ecAttempt, ecMax, ecCap)
    /\ ecPc' = "after"
    /\ UNCHANGED <<instVars, ctorVars, op, callVars, ecBase, ecCap, ecAttempt,
                   ecMax, ecI, ecRet>>

\* lines 39-42
ExpCapReturn ==
    /\ ecPc = "after"
    /\ ecRet' = FinalClamp(ecMax, ecCap)
    /\ ecPc' = "done"
    /\ UNCHANGED <<instVars, ctorVars, op, callVars, ecBase, ecCap, ecAttempt,
                   ecMax, ecI>>

NextExpCap ==
    \/ ExpCapEnter
    \/ ExpCapIterate
    \/ ExpCapLeave
    \/ ExpCapReturn

SpecExpCap == InitExpCap /\ [][NextExpCap]_vars

\* ------------------------- Decorrelated driven by the source f(n) = n - 1
\* A Decorrelated strategy just constructed from a valid Config whose random
\* source returns its maximum, then called with attempt >= 1 over and over.
InitMax ==
    /\ kind = "decorrelated"
    /\ base \in 1..MaxInt /\ cap \in 1..MaxInt
    /\ random = "max"
    /\ sleep = base
    /\ cfg = [Base |-> base, Cap |-> cap, Random |-> "max"]
    /\ issues = <<>>
    /\ op = "NewDecorrelated"
    /\ NoCall /\ EcIdle

DecorNextRunning ==
    /\ random = "max"
    /\ DecorCall(1..2)

\* The caller keeps retrying: a Next call is always possible and is made.
SpecMax == InitMax /\ [][DecorNextRunning]_vars /\ WF_vars(DecorNextRunning)

\* ================================================================= claims
Stateless == {"full", "equal", "exponential"}
Constructors == {"NewFull", "NewEqual", "NewDecorrelated", "NewExponential"}

\* C1: after any Next of a Decorrelated strategy built from an accepted
\* Config (Base > Cap included), the sleep field and the returned value lie
\* in [Base, Cap].
DecorWithinBaseCap ==
    (kind = "decorrelated" /\ op = "Next") =>
        /\ base <= sleep /\ sleep <= cap
        /\ base <= ret /\ ret <= cap

\* C2: every bound a strategy's Next hands to the random source is > 0.
RandomBoundPositive ==
    \A i \in 1..Len(randArgs) : randArgs[i] > 0

\* C3 as stated: for every attempt, Full returns a value of
\* [0, expCap), Equal one of [backoff/2, backoff], Exponential exactly expCap
\* without consulting the random source.
StatelessRangesEveryAttempt ==
    op = "Next" =>
        LET e == expCap(base, cap, attempt)
        IN  /\ kind = "full" => (~panicked /\ 0 <= ret /\ ret < e)
            /\ kind = "equal" => (Quo(e, 2) <= ret /\ ret <= e)
            /\ kind = "exponential" => (ret = e /\ randArgs = <<>>)

\* C3 amended: Full returns a value of [0, expCap) for every attempt >= 0
\* (for a negative attempt expCap is 0 and the range is empty); Equal and
\* Exponential as stated, for every attempt.
StatelessRanges ==
    op = "Next" =>
        LET e == expCap(base, cap, attempt)
        IN  /\ (kind = "full" /\ attempt >= 0) =>
                    (~panicked /\ 0 <= ret /\ ret < e /\ randArgs = <<e>>)
            /\ kind = "equal" =>
                    (~panicked /\ Quo(e, 2) <= ret /\ ret <= e)
            /\ kind = "exponential" =>
                    (~panicked /\ ret = e /\ randArgs = <<>>)

\* C3 witness: Equal returned its largest value for a doubled backoff.
StatelessRangesWitness ==
    /\ op = "Next" /\ kind = "equal" /\ attempt >= 2
    /\ expCap(base, cap, attempt) = 4 * base
    /\ ret = expCap(base, cap, attempt) - 1
    /\ randArgs = <<2 * base>>

AllIssuesReported ==
    op \in Constructors =>
        LET violated ==
                {m \in {IssueBase, IssueCap, IssueRandom} :
                    \/ m = IssueBase /\ cfg.Base <= 0
                    \/ m = IssueCap /\ cfg.Cap <= 0
                    \/ m = IssueRandom /\ cfg.Random = "nil"
                                       /\ op # "NewExponential"}
        IN  /\ {issues[i] : i \in 1..Len(issues)} = violated
            /\ Len(issues) = Cardinality(violated)
            /\ (kind = "none") <=> (violated # {})
            /\ (issues # <<>>) <=> (violated # {})

\* C5 witness: Base = 0, Cap = -5 and no random source: three issues at once.
AllIssuesReportedWitness ==
    /\ op = "NewDecorrelated"
    /\ cfg = [Base |-> 0, Cap |-> -5, Random |-> "nil"]
    /\ Len(issues) = 3 /\ kind = "none"

\* C6: expCap returns min(base * 2^attempt, cap) for valid arguments and 0
\* otherwise, and while doubling max is exactly base * 2^i: it never wraps
\* and never exceeds max(base, cap).
ExpCapIsMin ==
    /\ ecPc = "done" =>
            ecRet = IF ecBase > 0 /\ ecCap > 0 /\ ecAttempt >= 0
                    THEN Min2(ecBase * 2 ^ ecAttempt, ecCap)
                    ELSE 0
    /\ ecPc = "loop" =>
            (ecMax = ecBase * 2 ^ ecI /\ ecMax <= Max2(ecBase, ecCap))
    /\ ecPc = "after" => (0 < ecMax /\ ecMax <= Max2(ecBase, ecCap))

\* C6 witness: base * 2^attempt does not fit the integer type, the loop
\* doubled at least twice and the call returned.
ExpCapIsMinWitness ==
    /\ ecPc = "done" /\ ecBase < ecCap /\ ecI >= 2
    /\ ecBase * 2 ^ ecAttempt > MaxInt

\* C7: for 0 < base <= cap and attempt >= 0, expCap is at most cap, does not
\* decrease from attempt to attempt + 1, and equals cap from attempt
\* IntBits - 1 on.
ExpCapMonotoneToCap ==
    (ecPc = "done" /\ 0 < ecBase /\ ecBase <= ecCap /\ ecAttempt >= 0) =>
        /\ ecRet <= ecCap
        /\ ecRet <= expCap(ecBase, ecCap, ecAttempt + 1)
        /\ ecAttempt >= IntBits - 1 => ecRet = ecCap

\* C7 witness: the smallest base and the largest cap, at the attempt from
\* which the result is cap.
ExpCapMonotoneToCapWitness ==
    /\ ecPc = "done" /\ ecBase = 1 /\ ecCap = MaxInt
    /\ ecAttempt = IntBits - 1 /\ ecRet = ecCap

\* C8: with the source f(n) = n - 1, repeated Next(attempt >= 1) eventually
\* returns cap and returns cap ever after.
DecorConvergesToCap ==
    <>[](op = "Next" /\ ret = cap /\ sleep = cap)

\* C9: a stateless strategy's Next with a negative attempt returns 0.
NegativeAttemptNoDelay ==
    (op = "Next" /\ kind \in Stateless /\ attempt < 0) =>
        (~panicked /\ ret = 0)

\* C10: the upper bound Decorrelated uses is min(max(sleep * 3, base), cap)
\* with sleep * 3 the true product.
DecorUpperIsTrueBound ==
    (kind = "decorrelated" /\ op = "Next") =>
        upper = Min2(Max2(prev * 3, base), cap)

====
